---------------------------- MODULE Spec2Model ----------------------------
(***************************************************************************)
(* Model of the statement parser (parser_logic.py).                        *)
(*                                                                         *)
(* Representation of Python values:                                        *)
(*   str          a sequence of symbols; a one-character TLA+ string is a   *)
(*                character, a longer one is a literal phrase of the page   *)
(*                text that the patterns treat as a unit                    *)
(*   None         the 1-tuple None                                          *)
(*   Decimal      <<"Decimal", sign, coefficient, exponent>>, as in         *)
(*                decimal.Decimal (sign 1 is negative)                      *)
(*   float        <<"float", sign, coefficient, exponent>>, normalised      *)
(*   Transaction  <<"Transaction", date, merchant, amount>>                 *)
(*   an exception <<"raise", type>>                                         *)
(***************************************************************************)
EXTENDS Integers, Sequences, FiniteSets, TLC

None == <<"<None>">>

Raise(type) == <<"raise", type>>

IsRaise(v) == Len(v) = 2 /\ v[1] = "raise"

-----------------------------------------------------------------------------
(* Characters and the str methods the parser uses.                         *)

Digits == {"0", "1", "2", "3", "4", "5", "6", "7", "8", "9"}

UpperLetters == <<"A", "B", "C", "D", "E", "F", "G", "H", "I", "J", "K", "L", "M",
                  "N", "O", "P", "Q", "R", "S", "T", "U", "V", "W", "X", "Y", "Z">>

LowerLetters == <<"a", "b", "c", "d", "e", "f", "g", "h", "i", "j", "k", "l", "m",
                  "n", "o", "p", "q", "r", "s", "t", "u", "v", "w", "x", "y", "z">>

UpperSet == {UpperLetters[i] : i \in 1..26}

LowerSet == {LowerLetters[i] : i \in 1..26}

Whitespace == {" ", "\n", "\t"}

IndexIn(letters, c) == CHOOSE i \in 1..26 : letters[i] = c

LowerChar(c) == IF c \in UpperSet THEN LowerLetters[IndexIn(UpperLetters, c)] ELSE c

UpperChar(c) == IF c \in LowerSet THEN UpperLetters[IndexIn(LowerLetters, c)] ELSE c

DigitVal(c) ==
    CASE c = "0" -> 0 [] c = "1" -> 1 [] c = "2" -> 2 [] c = "3" -> 3 [] c = "4" -> 4
      [] c = "5" -> 5 [] c = "6" -> 6 [] c = "7" -> 7 [] c = "8" -> 8 [] c = "9" -> 9

DigitChar(n) == <<"0", "1", "2", "3", "4", "5", "6", "7", "8", "9">>[n + 1]

\* str.lower() and str.upper()
Lower(s) == [i \in 1..Len(s) |-> LowerChar(s[i])]

Upper(s) == [i \in 1..Len(s) |-> UpperChar(s[i])]

\* truthiness of an Optional[str]: None and "" are falsy
Falsy(s) == s = None \/ s = <<>>

RECURSIVE LStrip(_)
LStrip(s) == IF s # <<>> /\ Head(s) \in Whitespace THEN LStrip(Tail(s)) ELSE s

RECURSIVE RStrip(_)
RStrip(s) ==
    IF s # <<>> /\ s[Len(s)] \in Whitespace THEN RStrip(SubSeq(s, 1, Len(s) - 1)) ELSE s

\* str.strip()
Strip(s) == RStrip(LStrip(s))

\* s.startswith(p)
StartsWith(s, p) == Len(p) <= Len(s) /\ SubSeq(s, 1, Len(p)) = p

\* p in s
Contains(s, p) == \E i \in 1..(Len(s) - Len(p) + 1) : SubSeq(s, i, i + Len(p) - 1) = p

\* the characters of s that satisfy Keep, in order
RECURSIVE Filter(_, _)
Filter(s, keep) ==
    IF s = <<>> THEN <<>>
    ELSE (IF Head(s) \in keep THEN <<Head(s)>> ELSE <<>>) \o Filter(Tail(s), keep)

\* the characters of s that are not in drop, in order
RECURSIVE Remove(_, _)
Remove(s, drop) ==
    IF s = <<>> THEN <<>>
    ELSE (IF Head(s) \in drop THEN <<>> ELSE <<Head(s)>>) \o Remove(Tail(s), drop)

\* the length of the longest prefix of s made of characters of class
RECURSIVE Span(_, _)
Span(s, class) == IF s # <<>> /\ Head(s) \in class THEN 1 + Span(Tail(s), class) ELSE 0

\* sep.join(parts)
RECURSIVE Join(_, _)
Join(parts, sep) ==
    IF parts = <<>> THEN <<>>
    ELSE IF Len(parts) = 1 THEN parts[1]
    ELSE parts[1] \o sep \o Join(Tail(parts), sep)

\* s.split(sep)[0] for a one-character sep
RECURSIVE SplitFirst(_, _)
SplitFirst(s, sep) ==
    IF s = <<>> \/ Head(s) = sep THEN <<>> ELSE <<Head(s)>> \o SplitFirst(Tail(s), sep)

-----------------------------------------------------------------------------
(* decimal.Decimal, as far as _clean_amount uses it.                       *)

Dec(sign, coef, exp) == <<"Decimal", sign, coef, exp>>

DecSign(d) == d[2]

DecCoef(d) == d[3]

DecExp(d) == d[4]

RECURSIVE IntOf(_)
IntOf(digits) ==
    IF digits = <<>> THEN 0
    ELSE 10 * IntOf(SubSeq(digits, 1, Len(digits) - 1)) + DigitVal(digits[Len(digits)])

RECURSIVE IntDigits(_)
IntDigits(n) == IF n < 10 THEN <<DigitChar(n)>> ELSE IntDigits(n \div 10) \o <<DigitChar(n % 10)>>

RECURSIVE Zeros(_)
Zeros(n) == IF n <= 0 THEN <<>> ELSE <<"0">> \o Zeros(n - 1)

RECURSIVE Pow10(_)
Pow10(n) == IF n <= 0 THEN 1 ELSE 10 * Pow10(n - 1)

\* Decimal(s) for a string of digits and decimal points: at most one point and at
\* least one digit, else decimal.InvalidOperation
DecimalOf(s) ==
    LET digits == Filter(s, Digits)
        dot == Span(s, Digits) + 1
    IN  IF Len(s) - Len(digits) > 1 \/ digits = <<>>
        THEN Raise("InvalidOperation")
        ELSE Dec(0, IntOf(digits), IF dot > Len(s) THEN 0 ELSE -(Len(s) - dot))

\* Decimal.__neg__: the negation of a zero is the positive zero
DecNeg(d) == IF DecCoef(d) = 0 THEN Dec(0, 0, DecExp(d)) ELSE Dec(1 - DecSign(d), DecCoef(d), DecExp(d))

\* Decimal.__abs__
DecAbs(d) == Dec(0, DecCoef(d), DecExp(d))

\* Decimal.__eq__: equality of the numbers
DecEq(a, b) ==
    LET e == IF DecExp(a) < DecExp(b) THEN DecExp(a) ELSE DecExp(b)
        va == DecCoef(a) * Pow10(DecExp(a) - e)
        vb == DecCoef(b) * Pow10(DecExp(b) - e)
    IN  va = vb /\ (va = 0 \/ DecSign(a) = DecSign(b))

DecIsNegative(d) == DecSign(d) = 1 /\ DecCoef(d) # 0

DecIsPositive(d) == DecSign(d) = 0 /\ DecCoef(d) # 0

\* Decimal.__str__: plain notation when the exponent is at most 0 and more than
\* -6 digits lie left of the point, scientific notation otherwise
DecimalStr(d) ==
    LET int == IntDigits(DecCoef(d))
        exp == DecExp(d)
        leftdigits == exp + Len(int)
        dotplace == IF exp <= 0 /\ leftdigits > -6 THEN leftdigits ELSE 1
        intpart == IF dotplace <= 0 THEN <<"0">>
                   ELSE IF dotplace >= Len(int) THEN int \o Zeros(dotplace - Len(int))
                   ELSE SubSeq(int, 1, dotplace)
        fracpart == IF dotplace <= 0 THEN <<".">> \o Zeros(-dotplace) \o int
                    ELSE IF dotplace >= Len(int) THEN <<>>
                    ELSE <<".">> \o SubSeq(int, dotplace + 1, Len(int))
        e == leftdigits - dotplace
        exppart == IF e = 0 THEN <<>>
                   ELSE <<"E", IF e < 0 THEN "-" ELSE "+">> \o IntDigits(IF e < 0 THEN -e ELSE e)
    IN  (IF DecSign(d) = 1 THEN <<"-">> ELSE <<>>) \o intpart \o fracpart \o exppart

\* float(Decimal): the number itself, its trailing zeros gone
RECURSIVE Normalise(_, _)
Normalise(coef, exp) ==
    IF coef = 0 THEN <<0, 0>>
    ELSE IF exp < 0 /\ coef % 10 = 0 THEN Normalise(coef \div 10, exp + 1)
    ELSE <<coef, exp>>

Float(d) ==
    LET n == Normalise(DecCoef(d), DecExp(d)) IN <<"float", DecSign(d), n[1], n[2]>>

-----------------------------------------------------------------------------
(* _clean_amount                                                           *)

\* the try block with a leading "-" read as a credit indicator too
CleanAmountTry_MinusCredit(text) ==
    IF Falsy(text) THEN None
    ELSE LET t == Remove(Strip(text), {","})
             is_credit == \/ Contains(Lower(t), <<"c", "r">>)
                          \/ StartsWith(t, <<"+">>)
                          \/ StartsWith(t, <<"-">>)
             cleaned_text == Filter(t, Digits \cup {"."})
         IN  IF cleaned_text = <<>> THEN None
             ELSE LET amount == DecimalOf(cleaned_text)
                  IN  IF IsRaise(amount) THEN amount
                      ELSE IF is_credit THEN DecNeg(amount) ELSE amount

\* the try block of _clean_amount without its except clause
CleanAmountTry(text) ==
    IF Falsy(text) THEN None
    ELSE LET t == Remove(Strip(text), {","})
             is_credit == Contains(Lower(t), <<"c", "r">>) \/ StartsWith(t, <<"+">>)
             cleaned_text == Filter(t, Digits \cup {"."})
         IN  IF cleaned_text = <<>> THEN None
             ELSE LET amount == DecimalOf(cleaned_text)
                  IN  IF IsRaise(amount) THEN amount
                      ELSE IF is_credit THEN DecNeg(amount) ELSE amount

\* _clean_amount without its except clause
CleanAmount_Uncaught(text) == CleanAmountTry(text)

CleanAmount(text) ==
    LET r == CleanAmountTry(text)
    IN  IF IsRaise(r) /\ r[2] \in {"InvalidOperation", "ValueError"} THEN None ELSE r

-----------------------------------------------------------------------------
(* _is_transaction_table                                                   *)

KwDate == <<"d", "a", "t", "e">>

KwTransaction == <<"t", "r", "a", "n", "s", "a", "c", "t", "i", "o", "n">>

KwAmount == <<"a", "m", "o", "u", "n", "t">>

\* filter(None, cells): the cells that are neither None nor ""
RECURSIVE Truthy(_)
Truthy(cells) ==
    IF cells = <<>> THEN <<>>
    ELSE (IF Falsy(Head(cells)) THEN <<>> ELSE <<Head(cells)>>) \o Truthy(Tail(cells))

\* the classifier with "or" between the keywords
IsTransactionTable_AnyKeyword(header) ==
    IF header = <<>> THEN FALSE
    ELSE LET header_text == Lower(Join(Truthy(header), <<" ">>))
         IN  \/ Contains(header_text, KwDate)
             \/ Contains(header_text, KwTransaction)
             \/ Contains(header_text, KwAmount)

IsTransactionTable(header) ==
    IF header = <<>> THEN FALSE
    ELSE LET header_text == Lower(Join(Truthy(header), <<" ">>))
         IN  /\ Contains(header_text, KwDate)
             /\ Contains(header_text, KwTransaction)
             /\ Contains(header_text, KwAmount)

-----------------------------------------------------------------------------
(* _parse_transaction_row                                                  *)

Tx(date, merchant, amount) == <<"Transaction", date, merchant, amount>>

TxDate(t) == t[2]

TxMerchant(t) == t[3]

TxAmount(t) == t[4]

AllIn(s, class) == \A i \in 1..Len(s) : s[i] \in class

\* TX_DATE_RE.match(s): dd/dd/dddd at the start of s
\* the date pattern with \d{1,2} for the day
TxDateMatch_OneDigitDay(s) ==
    LET d == Span(s, Digits)
        r == SubSeq(s, d + 1, Len(s))
    IN  /\ d \in {1, 2}
        /\ Len(r) >= 8
        /\ \A i \in {2, 3, 5, 6, 7, 8} : r[i] \in Digits
        /\ r[1] = "/" /\ r[4] = "/"

TxDateMatch(s) ==
    /\ Len(s) >= 10
    /\ \A i \in {1, 2, 4, 5, 7, 8, 9, 10} : s[i] \in Digits
    /\ s[3] = "/" /\ s[6] = "/"

\* re.match(r"^[+-]\d+$", s)
SignedIntMatch(s) ==
    Len(s) >= 2 /\ s[1] \in {"+", "-"} /\ AllIn(Tail(s), Digits)

\* re.match(r"^\d+\s+pts$", s, re.IGNORECASE)
PointsMatch(s) ==
    LET d == Span(s, Digits)
        r1 == SubSeq(s, d + 1, Len(s))
        w == Span(r1, Whitespace)
    IN  d >= 1 /\ w >= 1 /\ Lower(SubSeq(r1, w + 1, Len(r1))) = <<"p", "t", "s">>

\* re.match(r"^(USD|EUR|GBP)\s+[\d\.]+$", s, re.IGNORECASE)
CurrencyMatch(s) ==
    /\ Len(s) >= 3
    /\ Upper(SubSeq(s, 1, 3)) \in {<<"U", "S", "D">>, <<"E", "U", "R">>, <<"G", "B", "P">>}
    /\ LET r1 == SubSeq(s, 4, Len(s))
           w == Span(r1, Whitespace)
           r2 == SubSeq(r1, w + 1, Len(r1))
       IN  w >= 1 /\ r2 # <<>> /\ AllIn(r2, Digits \cup {"."})

IsJunk(part_stripped) ==
    \/ Upper(part_stripped) = <<"E", "M", "I">>
    \/ Upper(part_stripped) = <<"E", "M">>
    \/ SignedIntMatch(part_stripped)
    \/ PointsMatch(part_stripped)
    \/ CurrencyMatch(part_stripped)

\* the loop over row[1:-1]
RECURSIVE MerchantParts(_)
MerchantParts(cells) ==
    IF cells = <<>> THEN <<>>
    ELSE LET part == Head(cells)
             rest == MerchantParts(Tail(cells))
         IN  IF Falsy(part) THEN rest
             ELSE IF IsJunk(Strip(part)) THEN rest
             ELSE <<Strip(part)>> \o rest

ParseTransactionRow(row) ==
    IF row = <<>> \/ Len(row) < 3 THEN None
    ELSE IF row[1] = None THEN Raise("AttributeError")
    ELSE LET date_str == Strip(SplitFirst(row[1], "|"))
             amount == CleanAmount(row[Len(row)])
             merchant == Strip(Join(MerchantParts(SubSeq(row, 2, Len(row) - 1)), <<" ">>))
         IN  IF ~TxDateMatch(date_str) THEN None
             ELSE IF IsRaise(amount) THEN amount
             ELSE IF amount = None THEN None
             ELSE IF merchant = <<>> \/ StartsWith(Lower(merchant), <<"t", "o", "t", "a", "l">>)
                  THEN None
             ELSE Tx(date_str, merchant, Float(amount))

-----------------------------------------------------------------------------
(* The patterns searched in the text of the first page.  A phrase of the    *)
(* text that a pattern names literally is one symbol of the text.           *)

PhTotal == "TOTAL CREDIT LIMIT"

PhIncluding == "(Including Cash)"

PhAvailable == "AVAILABLE CREDIT LIMIT"

PhCardNo == "Credit Card No."

PhMask == "XXXXXX"

WordsToRemove == {"HDFC", "Bank", "Credit", "Card", "Statement"}

OtherWords == {"Regalia", "Gold"}

\* symbols whose first, and whose last, character is a word character (\w)
WordStart == UpperSet \cup LowerSet \cup Digits \cup WordsToRemove \cup OtherWords
                 \cup {PhTotal, PhAvailable, PhCardNo, PhMask}

WordEnd == UpperSet \cup LowerSet \cup Digits \cup WordsToRemove \cup OtherWords
               \cup {PhTotal, PhAvailable, PhMask}

Least(S) == CHOOSE x \in S : \A y \in S : x <= y

Greatest(S) == CHOOSE x \in S : \A y \in S : x >= y

From(t, p) == SubSeq(t, p, Len(t))

At(t, p, lit) == p >= 1 /\ p + Len(lit) - 1 <= Len(t) /\ SubSeq(t, p, p + Len(lit) - 1) = lit

\* the positions where ^ matches under re.MULTILINE
LineStarts(t) == {1} \cup {p + 1 : p \in {q \in 1..Len(t) : t[q] = "\n"}}

\* the position of the first line break at or after p, Len(t) + 1 when there is none
LineEnd(t, p) == p + Len(SplitFirst(From(t, p), "\n"))

\* the position after \s* matched greedily from p
SkipSpace(t, p) == p + Span(From(t, p), Whitespace)

\* ([\d,]+\.?\d*) matched at the start of s: the captured text, None without a match
LimitCapture(s) ==
    LET n1 == Span(s, Digits \cup {","})
        dot == n1 + 1 <= Len(s) /\ s[n1 + 1] = "."
        n2 == IF dot THEN 1 + Span(From(s, n1 + 2), Digits) ELSE 0
    IN  IF n1 = 0 THEN None ELSE SubSeq(s, 1, n1 + n2)

\* TOTAL_LIMIT_RE_A matched at p: group 1, None without a match
MatchLimitA(t, p) ==
    IF ~At(t, p, <<PhTotal, "\n">>) THEN None
    ELSE LET q == SkipSpace(t, p + 2)
             e == LineEnd(t, q + 1)
         IN  IF ~(/\ At(t, q, <<PhIncluding>>)
                  /\ e <= Len(t)
                  /\ \E k \in (q + 1)..(e - 1) : t[k] = PhAvailable)
             THEN None
             ELSE LET r == SkipSpace(t, e + 1)
                      c == IF At(t, r, <<"C">>) THEN r + 1 ELSE r
                  IN  LimitCapture(From(t, c))

\* TOTAL_LIMIT_RE_B matched at p: two lines are skipped if the amount then
\* follows, else one
MatchLimitB(t, p) ==
    IF ~At(t, p, <<PhTotal, "\n">>) THEN None
    ELSE LET e1 == LineEnd(t, p + 2)
             e2 == LineEnd(t, e1 + 1)
             two == IF e1 <= Len(t) /\ e2 <= Len(t)
                    THEN LimitCapture(From(t, SkipSpace(t, e2 + 1))) ELSE None
             one == IF e1 <= Len(t)
                    THEN LimitCapture(From(t, SkipSpace(t, e1 + 1))) ELSE None
         IN  IF two # None THEN two ELSE one

\* TOTAL_LIMIT_RE_A.search(t): group 1 of the leftmost match
SearchLimitA(t) ==
    LET hits == {p \in 1..Len(t) : MatchLimitA(t, p) # None}
    IN  IF hits = {} THEN None ELSE MatchLimitA(t, Least(hits))

SearchLimitB(t) ==
    LET hits == {p \in 1..Len(t) : MatchLimitB(t, p) # None}
    IN  IF hits = {} THEN None ELSE MatchLimitB(t, Least(hits))

LitCardStatement == <<" ", "Credit", " ", "Card", " ", "Statement">>

\* CARD_NAME_RE matched at the line start p: group 1 stripped
MatchCardName(t, p) ==
    LET s == SkipSpace(t, p)
        lo == IF s - 1 >= p THEN s - 1 ELSE s
        us == {u \in lo..LineEnd(t, s) : At(t, u, LitCardStatement)}
    IN  IF us = {} THEN None ELSE Strip(SubSeq(t, s, Greatest(us) + 3))

SearchCardName(t) ==
    LET hits == {p \in LineStarts(t) : MatchCardName(t, p) # None}
    IN  IF hits = {} THEN None ELSE MatchCardName(t, Least(hits))

\* pattern.sub('', full_name) of _clean_card_name: whole words only (\b)
RemoveWords(s) ==
    LET whole(i) == /\ s[i] \in WordsToRemove
                    /\ (i = 1 \/ s[i - 1] \notin WordEnd)
                    /\ (i = Len(s) \/ s[i + 1] \notin WordStart)
        keep == {i \in 1..Len(s) : ~whole(i)}
        RECURSIVE Pick(_)
        Pick(i) == IF i > Len(s) THEN <<>>
                   ELSE (IF i \in keep THEN <<s[i]>> ELSE <<>>) \o Pick(i + 1)
    IN  Pick(1)

\* s.split()
RECURSIVE SplitWords(_)
SplitWords(s) ==
    LET t == LStrip(s)
        n == Len(t) - Len(Remove(t, Whitespace))
        w == IF n = 0 THEN Len(t) ELSE Least({i \in 1..Len(t) : t[i] \in Whitespace}) - 1
    IN  IF t = <<>> THEN <<>> ELSE <<SubSeq(t, 1, w)>> \o SplitWords(From(t, w + 1))

CleanCardName(full_name) == Join(SplitWords(RemoveWords(full_name)), <<" ">>)

\* the characters of a symbol
Chars(x) ==
    CASE x = PhTotal -> <<"T", "O", "T", "A", "L", " ", "C", "R", "E", "D", "I", "T", " ",
                          "L", "I", "M", "I", "T">>
      [] x = PhAvailable -> <<"A", "V", "A", "I", "L", "A", "B", "L", "E", " ", "C", "R", "E",
                              "D", "I", "T", " ", "L", "I", "M", "I", "T">>
      [] x = PhIncluding -> <<"(", "I", "n", "c", "l", "u", "d", "i", "n", "g", " ", "C", "a",
                              "s", "h", ")">>
      [] x = PhCardNo -> <<"C", "r", "e", "d", "i", "t", " ", "C", "a", "r", "d", " ", "N", "o",
                           ".">>
      [] x = PhMask -> <<"X", "X", "X", "X", "X", "X">>
      [] x = "HDFC" -> <<"H", "D", "F", "C">>
      [] x = "Bank" -> <<"B", "a", "n", "k">>
      [] x = "Credit" -> <<"C", "r", "e", "d", "i", "t">>
      [] x = "Card" -> <<"C", "a", "r", "d">>
      [] x = "Statement" -> <<"S", "t", "a", "t", "e", "m", "e", "n", "t">>
      [] x = "Regalia" -> <<"R", "e", "g", "a", "l", "i", "a">>
      [] x = "Gold" -> <<"G", "o", "l", "d">>
      [] OTHER -> <<x>>

\* the text character by character
RECURSIVE Flat(_)
Flat(t) == IF t = <<>> THEN <<>> ELSE Chars(Head(t)) \o Flat(Tail(t))

\* the symbols that [A-Z\s] matches character by character
NameClass == UpperSet \cup Whitespace \cup {PhTotal, PhAvailable, PhMask, "HDFC"}

\* NAME_ON_CARD_RE matched at the line start p: group 1 stripped
MatchNameOnCard(t, p) ==
    LET q == p + Span(From(t, p), NameClass)
    IN  IF /\ At(t, q, <<PhCardNo>>)
           /\ q - 1 >= p
           /\ t[q - 1] \in Whitespace
           /\ Len(Flat(SubSeq(t, p, q - 2))) >= 10
        THEN Strip(SubSeq(t, p, q - 2)) ELSE None

SearchNameOnCard(t) ==
    LET hits == {p \in LineStarts(t) : MatchNameOnCard(t, p) # None}
    IN  IF hits = {} THEN None ELSE MatchNameOnCard(t, Least(hits))

\* CARD_NUMBER_RE matched at p: the four digits after the first mask of the line
\* that four digits follow
MatchCardNumber(t, p) ==
    LET xs == {x \in (p + 1)..(LineEnd(t, p) - 1) :
                 /\ t[x] = PhMask
                 /\ x + 4 <= Len(t)
                 /\ \A k \in 1..4 : t[x + k] \in Digits}
    IN  IF At(t, p, <<PhCardNo>>) /\ xs # {} THEN SubSeq(t, Least(xs) + 1, Least(xs) + 4)
        ELSE None

SearchCardNumber(t) ==
    LET hits == {p \in 1..Len(t) : MatchCardNumber(t, p) # None}
    IN  IF hits = {} THEN None ELSE MatchCardNumber(t, Least(hits))

-----------------------------------------------------------------------------
(* Inputs: cells, rows, tables and page texts, among them the scenarios of  *)
(* the specification.                                                       *)

MaxPages == 2

MaxTables == 2

MaxMid == 2

MaxHeader == 3

MaxLines == 3

MaxLen == 4

SeqsUpTo(S, n) == UNION {[1..k -> S] : k \in 0..n}

CellDate == <<"D", "a", "t", "e">>

CellTxDetails == <<"T", "r", "a", "n", "s", "a", "c", "t", "i", "o", "n", " ", "D", "e", "t", "a", "i", "l", "s">>

CellAmount == <<"A", "m", "o", "u", "n", "t">>

CellSNo == <<"S", ".", "N", "o">>

CellDescription == <<"D", "e", "s", "c", "r", "i", "p", "t", "i", "o", "n">>

Date0810 == <<"0", "8", "/", "1", "0", "/", "2", "0", "2", "5">>

Date0910 == <<"0", "9", "/", "1", "0", "/", "2", "0", "2", "5">>

Date1010 == <<"1", "0", "/", "1", "0", "/", "2", "0", "2", "5">>

DateTime == <<"0", "8", "/", "1", "0", "/", "2", "0", "2", "5", " ", "|", " ", "1", "1", ":", "5", "8">>

DateTrailing == <<"0", "8", "/", "1", "0", "/", "2", "0", "2", "5", "x">>

DateShort == <<"8", "/", "1", "0", "/", "2", "0", "2", "5">>

DatePadded == <<" ", "0", "8", "/", "1", "0", "/", "2", "0", "2", "5", " ">>

AmazonPay == <<"A", "M", "A", "Z", "O", "N", " ", "P", "A", "Y">>

PaymentReceived == <<"P", "A", "Y", "M", "E", "N", "T", " ", "R", "E", "C", "E", "I", "V", "E", "D">>

Starbucks == <<"S", "T", "A", "R", "B", "U", "C", "K", "S">>

TotalDue == <<"T", "o", "t", "a", "l", " ", "D", "u", "e">>

Emi == <<"E", "M", "I">>

EmLower == <<"e", "m">>

Points == <<"4", "5", "0", " ", "p", "t", "s">>

PointsTight == <<"4", "5", "0", "p", "t", "s">>

Usd == <<"U", "S", "D", " ", "4", ".", "5", "0">>

Inr == <<"I", "N", "R", " ", "4", ".", "5", "0">>

Delta == <<"+", "5", "7">>

Blank == <<" ">>

Amt123456 == <<"1", ",", "2", "3", "4", ".", "5", "6">>

AmtPayment == <<"+", "8", "6", ",", "9", "6", "2", ".", "0", "0">>

AmtC500 == <<"C", "5", "0", "0", ".", "0", "0">>

AmtCr == <<"5", " ", "C", "r">>

AmtZeroCredit == <<"+", "0", ".", "0", "0">>

AmtWords == <<"a", "b", "c">>

AmtTwoDots == <<"1", ".", "2", ".", "3">>

AmtOne == <<"1", ".", "0", "0">>

AmtLimit == <<"C", "3", ",", "0", "0", ",", "0", "0", "0">>

AmtDr == <<"1", "0", "0", " ", "D", "r">>

AmtTiny == <<".", "0", "0", "0", "0", "0", "0", "1">>

AmtGlyph == <<"$", "5">>

AmtTinyCredit == <<"+", "0", ".", "0", "0", "0", "0", "0", "0", "0">>


HeaderLedger == <<CellDate, CellTxDetails, CellAmount>>

HeaderOther == <<CellSNo, CellDescription>>

RowAmazon == <<Date0810, AmazonPay, Amt123456>>

RowPayment == <<Date0910, PaymentReceived, AmtPayment>>

RowStarbucks == <<Date1010, Starbucks, Emi, Usd, Points, AmtC500>>

RowTotal == <<Date1010, TotalDue, AmtOne>>

RowNoDate == <<None, AmazonPay, AmtOne>>

TableLedger == <<HeaderLedger, RowAmazon, RowTotal, RowPayment>>

TableLedger2 == <<HeaderLedger, RowStarbucks>>

TableOther == <<HeaderOther, RowAmazon>>

TableEmpty == <<>>

TableBad == <<HeaderLedger, RowStarbucks, RowNoDate, RowAmazon>>

TableCat == {TableLedger, TableLedger2, TableOther, TableEmpty, TableBad}

\* the lines a page text is made of
LineTotal == <<PhTotal>>

LineTotalTrailing == <<PhTotal, " ">>

LineIncludingAvailable == <<PhIncluding, " ", PhAvailable>>

LineMarkedAmount == <<"C", "3", ",", "0", "0">>

LineAmount == <<" ", "7", ".", "5">>

LineBlank == <<>>

LineOther == <<"x">>

LineCardName == <<"HDFC", " ", "Bank", " ", "Regalia", " ", "Gold", " ", "Credit", " ", "Card",
                  " ", "Statement">>

LineNameAndNumber == <<"J", "O", "H", "N", " ", "S", "M", "I", "T", "H", " ", PhCardNo, " ",
                       PhMask, "1", "2", "3", "4">>

LineCat == {LineTotal, LineTotalTrailing, LineIncludingAvailable, LineMarkedAmount, LineAmount,
            LineBlank, LineOther}

TextOf(lines) == Join(lines, <<"\n">>)

\* Scenario 4 under the summary lines of a statement
TextScenario == TextOf(<<LineCardName, LineNameAndNumber, LineTotal, LineIncludingAvailable,
                         <<"C", "3", ",", "0", "0", ",", "0", "0", "0">>>>)

\* a text on which both layouts match, with different amounts
TextTwoLayouts == TextOf(<<LineCardName, LineTotal, LineIncludingAvailable, LineMarkedAmount,
                           LineAmount>>)

Page(text, tables, fault) == [text |-> text, tables |-> tables, fault |-> fault]

Doc(open, pages, fault) == [open |-> open, pages |-> pages, fault |-> fault]

\* the pages with text that hold k tables
PagesWith(k) == {Page(TextScenario, tb, "none") : tb \in [1..k -> TableCat]}

\* the pages the loop does not finish: without text (with a table or without),
\* or whose text or tables cannot be read
OddPages ==
    {Page(<<>>, tb, "none") : tb \in {<<>>} \cup {<<t>> : t \in TableCat}}
        \cup {Page(TextScenario, <<>>, "text"), Page(TextScenario, <<>>, "tables")}

\* the sequences of at most p pages that hold at most t tables
RECURSIVE PageSeqs(_, _)
PageSeqs(p, t) ==
    IF p = 0 THEN {<<>>}
    ELSE {<<>>} \cup UNION {{<<pg>> \o rest : pg \in PagesWith(k), rest \in PageSeqs(p - 1, t - k)} :
                           k \in 0..t}

\* rows: a first cell, at most MaxMid cells between, a last cell
RowsOf(firsts, mids, lasts) ==
    {<<>>} \cup {<<f>> : f \in firsts}
        \cup {<<f>> \o m \o <<l>> : f \in firsts, m \in SeqsUpTo(mids, MaxMid), l \in lasts}

LedgerFirsts == {Date0810, DateTime, DateTrailing, DateShort, None}

LedgerMids == {AmazonPay, None, Emi}

LedgerLasts == {AmtOne, AmtZeroCredit, AmtWords, None}

HeaderCells == {CellDate, CellTxDetails, Upper(CellAmount), <<"d", "a">>, <<"t", "e">>, None, <<>>}

\* the documents: statements of several pages with text, statements with an
\* odd page alone, before or after a page with one table, one-table statements
\* over the rows and over the headers, one-page statements over the page
\* texts, and the documents that do not open or whose pages cannot be listed
Docs ==
    {Doc("ok", ps, FALSE) : ps \in PageSeqs(MaxPages, MaxTables)}
        \cup {Doc("ok", ps, FALSE) :
                ps \in UNION {{<<o>>, <<o, n>>, <<n, o>>} : o \in OddPages, n \in PagesWith(1)}}
        \cup {Doc("ok", <<Page(TextScenario, <<<<HeaderLedger, r>>>>, "none")>>, FALSE) :
                r \in RowsOf(LedgerFirsts, LedgerMids, LedgerLasts)}
        \cup {Doc("ok", <<Page(TextScenario, <<<<h, RowAmazon>>>>, "none")>>, FALSE) :
                h \in SeqsUpTo(HeaderCells, MaxHeader)}
        \cup {Doc("ok", <<Page(t, <<>>, "none")>>, FALSE) :
                t \in {TextOf(ls) : ls \in SeqsUpTo(LineCat, MaxLines)} \cup {TextTwoLayouts}}
        \cup {Doc("password", <<>>, FALSE), Doc("error", <<>>, FALSE), Doc("ok", <<>>, TRUE)}

AmountAlphabet == {"0", "1", ".", ",", "+", "-", "C", "r", " "}

AmountTexts ==
    SeqsUpTo(AmountAlphabet, MaxLen)
        \cup {None, Amt123456, AmtPayment, AmtC500, AmtCr, AmtLimit, AmtDr, AmtTiny, AmtGlyph,
              AmtTinyCredit, AmtTwoDots, AmtWords}

RowFirsts == {Date0810, DateTime, DateTrailing, DateShort, DatePadded, None, <<>>}

RowMids == {AmazonPay, Starbucks, TotalDue, Blank, None, <<>>, Emi, EmLower, Points, PointsTight,
            Usd, Inr, Delta}

RowLasts == {Amt123456, AmtPayment, AmtC500, AmtWords, None, Date0810}

\* a row with a cell of one space between two merchant cells
RowGap == <<Date0810, AmazonPay, Blank, Starbucks, Amt123456>>

Rows == RowsOf(RowFirsts, RowMids, RowLasts) \cup {RowGap, RowStarbucks}

-----------------------------------------------------------------------------
(* parse_statement                                                         *)

VARIABLES
    doc,                 \* what the document loader answers for file_bytes and password
    pc,                  \* the position in parse_statement
    pdf,                 \* "None", "open" or "closed"
    closes,              \* the calls of pdf.close()
    i,                   \* the page of the loop, counted from 1
    j,                   \* the table of the page, counted from 1
    page_one_text,
    transactions,
    card_name,
    name_on_card,
    card_last_4_digits,
    searched,            \* the credit-limit patterns searched so far
    limit_str,
    total_limit,
    outcome,             \* "running", "StatementDetails", "PasswordError" or "ParsingError"
    result,              \* the StatementDetails returned, None before and without
    text,                \* _clean_amount alone: its argument,
    amount,              \*   its result,
    again,               \*   the result for str(amount),
    apc,
    row,                 \* _parse_transaction_row alone: its argument,
    tx,                  \*   its result,
    rpc

vars == <<doc, pc, pdf, closes, i, j, page_one_text, transactions, card_name, name_on_card,
          card_last_4_digits, searched, limit_str, total_limit, outcome, result,
          text, amount, again, apc, row, tx, rpc>>

parseVars == <<doc, pc, pdf, closes, i, j, page_one_text, transactions, card_name, name_on_card,
               card_last_4_digits, searched, limit_str, total_limit, outcome, result>>

amountVars == <<text, amount, again, apc>>

rowVars == <<row, tx, rpc>>

StatementDetails(cn, l4, noc, lim, txs) ==
    [card_name |-> cn, card_last_4_digits |-> l4, name_on_card |-> noc,
     available_limit |-> lim, transactions |-> txs]

NoResult == [none |-> TRUE]

\* the locals of parse_statement at lines 195 and 210-219
ParseStart(d) ==
    /\ doc = d
    /\ pc = "open"
    /\ pdf = "None"
    /\ closes = 0
    /\ i = 0
    /\ j = 0
    /\ page_one_text = <<>>
    /\ transactions = <<>>
    /\ card_name = None
    /\ name_on_card = None
    /\ card_last_4_digits = None
    /\ searched = {}
    /\ limit_str = None
    /\ total_limit = None
    /\ outcome = "running"
    /\ result = NoResult

AmountIdle == text = None /\ amount = None /\ again = None /\ apc = "idle"

RowIdle == row = <<>> /\ tx = None /\ rpc = "idle"

ParseIdle == ParseStart(Doc("ok", <<>>, FALSE))

\* pdfplumber.open succeeds
OpenOk ==
    /\ pc = "open" /\ doc.open = "ok"
    /\ pdf' = "open"
    /\ pc' = "pages"
    /\ UNCHANGED <<amountVars, rowVars, doc, closes, i, j, page_one_text, transactions, card_name, name_on_card,
                   card_last_4_digits, searched, limit_str, total_limit, outcome, result>>

\* pdfplumber.open raises pdfplumber.errors.PasswordError
OpenPasswordError ==
    /\ pc = "open" /\ doc.open = "password"
    /\ outcome' = "PasswordError"
    /\ pc' = "done"
    /\ UNCHANGED <<amountVars, rowVars, doc, pdf, closes, i, j, page_one_text, transactions, card_name, name_on_card,
                   card_last_4_digits, searched, limit_str, total_limit, result>>

\* pdfplumber.open raises anything else
OpenError ==
    /\ pc = "open" /\ doc.open = "error"
    /\ outcome' = "ParsingError"
    /\ pc' = "done"
    /\ UNCHANGED <<amountVars, rowVars, doc, pdf, closes, i, j, page_one_text, transactions, card_name, name_on_card,
                   card_last_4_digits, searched, limit_str, total_limit, result>>

\* len(pdf.pages) and the start of the page loop
ListPages ==
    /\ pc = "pages"
    /\ IF doc.fault THEN pc' = "except" /\ i' = i
       ELSE pc' = "text" /\ i' = 1
    /\ UNCHANGED <<amountVars, rowVars, doc, pdf, closes, j, page_one_text, transactions, card_name, name_on_card,
                   card_last_4_digits, searched, limit_str, total_limit, outcome, result>>

\* page.extract_text: a page without text is skipped, the first page's text is kept
ExtractText ==
    /\ pc = "text" /\ i <= Len(doc.pages)
    /\ LET page == doc.pages[i]
       IN  IF page.fault = "text" THEN pc' = "except" /\ UNCHANGED <<i, page_one_text>>
           ELSE IF page.text = <<>> THEN pc' = "text" /\ i' = i + 1 /\ UNCHANGED page_one_text
           ELSE /\ pc' = "tables"
                /\ page_one_text' = IF i = 1 THEN page.text ELSE page_one_text
                /\ i' = i
    /\ UNCHANGED <<amountVars, rowVars, doc, pdf, closes, j, transactions, card_name, name_on_card,
                   card_last_4_digits, searched, limit_str, total_limit, outcome, result>>

\* page.extract_tables
ExtractTables ==
    /\ pc = "tables"
    /\ IF doc.pages[i].fault = "tables" THEN pc' = "except" /\ j' = j
       ELSE pc' = "table" /\ j' = 1
    /\ UNCHANGED <<amountVars, rowVars, doc, pdf, closes, i, page_one_text, transactions, card_name, name_on_card,
                   card_last_4_digits, searched, limit_str, total_limit, outcome, result>>

\* the loop over table[1:] with transactions.insert(0, tx)
RECURSIVE ParseRows_NewestFirst(_, _)
ParseRows_NewestFirst(rows, acc) ==
    IF rows = <<>> THEN [txs |-> acc, raised |-> FALSE]
    ELSE LET t == ParseTransactionRow(Head(rows))
         IN  IF IsRaise(t) THEN [txs |-> acc, raised |-> TRUE]
             ELSE ParseRows_NewestFirst(Tail(rows), IF t = None THEN acc ELSE <<t>> \o acc)

\* the loop over table[1:]: the transactions appended, and whether a row raised
RECURSIVE ParseRows(_, _)
ParseRows(rows, acc) ==
    IF rows = <<>> THEN [txs |-> acc, raised |-> FALSE]
    ELSE LET t == ParseTransactionRow(Head(rows))
         IN  IF IsRaise(t) THEN [txs |-> acc, raised |-> TRUE]
             ELSE ParseRows(Tail(rows), IF t = None THEN acc ELSE Append(acc, t))

\* one pass of the loop over the page's tables
ProcessTable ==
    /\ pc = "table" /\ j <= Len(doc.pages[i].tables)
    /\ LET table == doc.pages[i].tables[j]
       IN  IF table = <<>> \/ ~IsTransactionTable(table[1])
           THEN pc' = "table" /\ j' = j + 1 /\ UNCHANGED transactions
           ELSE LET r == ParseRows(Tail(table), transactions)
                IN  /\ transactions' = r.txs
                    /\ IF r.raised THEN pc' = "except" /\ j' = j
                       ELSE pc' = "table" /\ j' = j + 1
    /\ UNCHANGED <<amountVars, rowVars, doc, pdf, closes, i, page_one_text, card_name, name_on_card,
                   card_last_4_digits, searched, limit_str, total_limit, outcome, result>>

\* the page's tables are done: the next page
NextPage ==
    /\ pc = "table" /\ j > Len(doc.pages[i].tables)
    /\ pc' = "text"
    /\ i' = i + 1
    /\ UNCHANGED <<amountVars, rowVars, doc, pdf, closes, j, page_one_text, transactions, card_name, name_on_card,
                   card_last_4_digits, searched, limit_str, total_limit, outcome, result>>

\* Rule 1, after the last page
ExtractCardName ==
    /\ pc = "text" /\ i > Len(doc.pages)
    /\ LET m == SearchCardName(page_one_text)
       IN  card_name' = IF m # None THEN CleanCardName(m) ELSE card_name
    /\ pc' = "name_on_card"
    /\ UNCHANGED <<amountVars, rowVars, doc, pdf, closes, i, j, page_one_text, transactions, name_on_card,
                   card_last_4_digits, searched, limit_str, total_limit, outcome, result>>

\* Rule 3
ExtractNameOnCard ==
    /\ pc = "name_on_card"
    /\ LET m == SearchNameOnCard(page_one_text)
       IN  name_on_card' = IF m # None THEN m ELSE name_on_card
    /\ pc' = "card_number"
    /\ UNCHANGED <<amountVars, rowVars, doc, pdf, closes, i, j, page_one_text, transactions, card_name,
                   card_last_4_digits, searched, limit_str, total_limit, outcome, result>>

\* Rule 2
ExtractCardNumber ==
    /\ pc = "card_number"
    /\ LET m == SearchCardNumber(page_one_text)
       IN  card_last_4_digits' = IF m # None THEN m ELSE card_last_4_digits
    /\ pc' = "limit_a"
    /\ UNCHANGED <<amountVars, rowVars, doc, pdf, closes, i, j, page_one_text, transactions, card_name,
                   name_on_card, searched, limit_str, total_limit, outcome, result>>

\* Pattern A followed by an "if" for Pattern B in place of the "elif"
TryLimitA_ThenAlwaysB ==
    /\ pc = "limit_a"
    /\ searched' = searched \cup {"A"}
    /\ LET m == SearchLimitA(page_one_text)
       IN  limit_str' = IF m # None THEN m ELSE limit_str
    /\ pc' = "limit_b"
    /\ UNCHANGED <<amountVars, rowVars, doc, pdf, closes, i, j, page_one_text, transactions, card_name,
                   name_on_card, card_last_4_digits, total_limit, outcome, result>>

\* the if of line 280: Pattern A
TryLimitA ==
    /\ pc = "limit_a"
    /\ searched' = searched \cup {"A"}
    /\ LET m == SearchLimitA(page_one_text)
       IN  IF m # None THEN limit_str' = m /\ pc' = "limit"
           ELSE limit_str' = limit_str /\ pc' = "limit_b"
    /\ UNCHANGED <<amountVars, rowVars, doc, pdf, closes, i, j, page_one_text, transactions, card_name,
                   name_on_card, card_last_4_digits, total_limit, outcome, result>>

\* the elif of line 283: Pattern B
TryLimitB ==
    /\ pc = "limit_b"
    /\ searched' = searched \cup {"B"}
    /\ LET m == SearchLimitB(page_one_text)
       IN  limit_str' = IF m # None THEN m ELSE limit_str
    /\ pc' = "limit"
    /\ UNCHANGED <<amountVars, rowVars, doc, pdf, closes, i, j, page_one_text, transactions, card_name,
                   name_on_card, card_last_4_digits, total_limit, outcome, result>>

\* lines 287-293
NormaliseLimit ==
    /\ pc = "limit"
    /\ LET limit_decimal == IF Falsy(limit_str) THEN None ELSE CleanAmount(limit_str)
       IN  total_limit' = IF limit_decimal # None THEN Float(DecAbs(limit_decimal))
                          ELSE total_limit
    /\ pc' = "return"
    /\ UNCHANGED <<amountVars, rowVars, doc, pdf, closes, i, j, page_one_text, transactions, card_name,
                   name_on_card, card_last_4_digits, searched, limit_str, outcome, result>>

\* lines 302-308: the result is built and returned through the finally clause
Return ==
    /\ pc = "return"
    /\ result' = StatementDetails(card_name, card_last_4_digits, name_on_card, total_limit,
                                  transactions)
    /\ outcome' = "StatementDetails"
    /\ pc' = "finally"
    /\ UNCHANGED <<amountVars, rowVars, doc, pdf, closes, i, j, page_one_text, transactions, card_name,
                   name_on_card, card_last_4_digits, searched, limit_str, total_limit>>

\* the except clause re-raising what it caught
Except_Reraise ==
    /\ pc = "except"
    /\ outcome' = "Exception"
    /\ pc' = "finally"
    /\ UNCHANGED <<amountVars, rowVars, doc, pdf, closes, i, j, page_one_text, transactions, card_name,
                   name_on_card, card_last_4_digits, searched, limit_str, total_limit, result>>

\* lines 310-312: whatever the try block raised becomes a ParsingError
Except ==
    /\ pc = "except"
    /\ outcome' = "ParsingError"
    /\ pc' = "finally"
    /\ UNCHANGED <<amountVars, rowVars, doc, pdf, closes, i, j, page_one_text, transactions, card_name,
                   name_on_card, card_last_4_digits, searched, limit_str, total_limit, result>>

\* pdf.close() after the return statement in place of the finally clause
Finally_CloseOnReturn ==
    /\ pc = "finally"
    /\ IF pdf # "None" /\ outcome = "StatementDetails" THEN pdf' = "closed" /\ closes' = closes + 1
       ELSE UNCHANGED <<pdf, closes>>
    /\ pc' = "done"
    /\ UNCHANGED <<amountVars, rowVars, doc, i, j, page_one_text, transactions, card_name, name_on_card,
                   card_last_4_digits, searched, limit_str, total_limit, outcome, result>>

\* lines 313-316
Finally ==
    /\ pc = "finally"
    /\ IF pdf # "None" THEN pdf' = "closed" /\ closes' = closes + 1
       ELSE UNCHANGED <<pdf, closes>>
    /\ pc' = "done"
    /\ UNCHANGED <<amountVars, rowVars, doc, i, j, page_one_text, transactions, card_name, name_on_card,
                   card_last_4_digits, searched, limit_str, total_limit, outcome, result>>

Init == (\E d \in Docs : ParseStart(d)) /\ AmountIdle /\ RowIdle

Next ==
    \/ OpenOk \/ OpenPasswordError \/ OpenError \/ ListPages \/ ExtractText
    \/ ExtractTables \/ ProcessTable \/ NextPage \/ ExtractCardName \/ ExtractNameOnCard
    \/ ExtractCardNumber \/ TryLimitA \/ TryLimitB \/ NormaliseLimit \/ Return \/ Except
    \/ Finally

Spec == Init /\ [][Next]_vars

-----------------------------------------------------------------------------
(* _clean_amount alone, then again on the string form of its result        *)

Clean ==
    /\ apc = "clean"
    /\ amount' = CleanAmount(text)
    /\ apc' = "cleaned"
    /\ UNCHANGED <<text, again, parseVars, rowVars>>

CleanAgain ==
    /\ apc = "cleaned" /\ amount # None /\ ~IsRaise(amount)
    /\ again' = CleanAmount(DecimalStr(amount))
    /\ apc' = "done"
    /\ UNCHANGED <<text, amount, parseVars, rowVars>>

InitAmount ==
    /\ text \in AmountTexts /\ amount = None /\ again = None /\ apc = "clean"
    /\ ParseIdle /\ RowIdle

NextAmount == Clean \/ CleanAgain

SpecAmount == InitAmount /\ [][NextAmount]_vars

-----------------------------------------------------------------------------
(* _parse_transaction_row alone                                            *)

ParseRow ==
    /\ rpc = "parse"
    /\ tx' = ParseTransactionRow(row)
    /\ rpc' = "done"
    /\ UNCHANGED <<row, parseVars, amountVars>>

InitRow == row \in Rows /\ tx = None /\ rpc = "parse" /\ ParseIdle /\ AmountIdle

NextRow == ParseRow

SpecRow == InitRow /\ [][NextRow]_vars

-----------------------------------------------------------------------------
(* Properties.                                                             *)

Done == pc = "done"

Succeeded == pc = "done" /\ outcome = "StatementDetails"

\* the document opens and the loader reads every page's text and tables
LoaderSound(d) ==
    d.open = "ok" /\ ~d.fault /\ \A p \in 1..Len(d.pages) : d.pages[p].fault = "none"

\* a row of a ledger table of page raises
RowRaises(page) ==
    \E k \in 1..Len(page.tables) :
        LET table == page.tables[k]
        IN  /\ table # <<>>
            /\ IsTransactionTable(table[1])
            /\ \E r \in 2..Len(table) : IsRaise(ParseTransactionRow(table[r]))

\* reading the pages and tables of d fails somewhere
ReadFails(d) ==
    \/ d.fault
    \/ \E p \in 1..Len(d.pages) :
          \/ d.pages[p].fault = "text"
          \/ d.pages[p].text # <<>> /\ d.pages[p].fault = "tables"
          \/ d.pages[p].text # <<>> /\ d.pages[p].fault = "none" /\ RowRaises(d.pages[p])

\* C1: whenever the document open succeeds, the handle is closed exactly once
\* before the invocation ends, on the normal and on every failure path; it is
\* never closed twice, and never closed when the open failed.
C1_HandleReleasedOnce ==
    /\ closes <= 1
    /\ (closes = 1) = (pdf = "closed")
    /\ Done /\ doc.open = "ok" => pdf = "closed"
    /\ Done /\ doc.open # "ok" => pdf = "None"
    /\ pdf = "closed" => Done

C1_Witness == Done /\ outcome = "ParsingError" /\ transactions # <<>> /\ closes = 1

\* C2: every invocation ends with exactly one of StatementDetails, PasswordError
\* and ParsingError: PasswordError for the credential failure at open,
\* ParsingError for any other failure at open and for any failure while the
\* pages and tables are read, and no result object in the three failure cases.
C2_OneOutcome ==
    /\ outcome \in {"running", "StatementDetails", "PasswordError", "ParsingError"}
    /\ (outcome = "running") = (pc \notin {"finally", "done"})
    /\ (outcome = "StatementDetails") = (result # NoResult)
    /\ Done /\ doc.open = "password" => outcome = "PasswordError"
    /\ Done /\ doc.open = "error" => outcome = "ParsingError"
    /\ Done /\ doc.open = "ok" => (outcome = "ParsingError") = ReadFails(doc)

C2_Witness ==
    Done /\ outcome = "ParsingError" /\ doc.open = "ok" /\ transactions # <<>> /\ result = NoResult

\* C3 (as claimed): for a document that opens and whose pages are read, no row of
\* a ledger table, whatever its cells, absent ones included, aborts the parse:
\* the invocation returns a StatementDetails.
C3_RowMissNeverAborts == Done /\ LoaderSound(doc) => outcome = "StatementDetails"

\* the transactions of the rows of one table, as the classifier and the row
\* normaliser decide them
RECURSIVE AcceptedRows(_)
AcceptedRows(rows) ==
    IF rows = <<>> THEN <<>>
    ELSE LET t == ParseTransactionRow(Head(rows))
         IN  (IF t = None \/ IsRaise(t) THEN <<>> ELSE <<t>>) \o AcceptedRows(Tail(rows))

TableTransactions(table) ==
    IF table # <<>> /\ IsTransactionTable(table[1]) THEN AcceptedRows(Tail(table)) ELSE <<>>

RECURSIVE TablesTransactions(_)
TablesTransactions(tables) ==
    IF tables = <<>> THEN <<>>
    ELSE TableTransactions(Head(tables)) \o TablesTransactions(Tail(tables))

\* over every page when skipEmpty is FALSE, over the pages that have text otherwise
RECURSIVE PagesTransactions(_, _)
PagesTransactions(pages, skipEmpty) ==
    IF pages = <<>> THEN <<>>
    ELSE (IF skipEmpty /\ Head(pages).text = <<>> THEN <<>>
          ELSE TablesTransactions(Head(pages).tables))
             \o PagesTransactions(Tail(pages), skipEmpty)

DateShape(s, strict) ==
    /\ IF strict THEN Len(s) = 10 ELSE Len(s) >= 10
    /\ \A k \in 1..10 : IF k \in {3, 6} THEN s[k] = "/" ELSE s[k] \in Digits

\* the junk cells as the claim lists them
ClaimedJunk(c) ==
    \/ Upper(c) \in {<<"E", "M", "I">>, <<"E", "M">>}
    \/ Len(c) >= 2 /\ c[1] \in {"+", "-"} /\ AllIn(Tail(c), Digits)
    \/ LET d == Span(c, Digits)
           r == Strip(SubSeq(c, d + 1, Len(c)))
       IN  d >= 1 /\ d < Len(c) /\ c[d + 1] \in Whitespace /\ Lower(r) = <<"p", "t", "s">>
    \/ /\ Len(c) >= 5
       /\ AllIn(SubSeq(c, 1, 3), UpperSet \cup LowerSet)
       /\ c[4] \in Whitespace
       /\ LET n == Strip(SubSeq(c, 4, Len(c)))
          IN  n # <<>> /\ AllIn(n, Digits \cup {"."}) /\ Len(Filter(n, {"."})) <= 1
              /\ Filter(n, Digits) # <<>>

\* the merchant text as the claim words it: the cells between the first and the
\* last, trimmed, the empty and the junk ones left out, joined by one space
RECURSIVE ClaimedParts(_)
ClaimedParts(cells) ==
    IF cells = <<>> THEN <<>>
    ELSE LET c == IF Head(cells) = None THEN <<>> ELSE Strip(Head(cells))
         IN  (IF c = <<>> \/ ClaimedJunk(c) THEN <<>> ELSE <<c>>) \o ClaimedParts(Tail(cells))

\* the row normaliser as the claim words it
ClaimedRow(r) ==
    IF Len(r) < 3 THEN None
    ELSE LET date == IF r[1] = None THEN <<>> ELSE Strip(SplitFirst(r[1], "|"))
             amt == CleanAmount(r[Len(r)])
             merchant == Join(ClaimedParts(SubSeq(r, 2, Len(r) - 1)), <<" ">>)
         IN  IF \/ ~DateShape(date, TRUE)
                \/ amt = None
                \/ merchant = <<>>
                \/ StartsWith(Lower(merchant), <<"t", "o", "t", "a", "l">>)
             THEN None
             ELSE Tx(date, merchant, Float(amt))

\* C5 (as claimed): _parse_transaction_row rejects a row exactly when it has
\* fewer than 3 cells, its date fails the strict pattern, its last cell fails
\* amount normalisation, or its filtered merchant text is empty or starts with
\* "total"; in every other case it returns the transaction with that date, the
\* filtered merchant text and the amount.
C5_RowNormaliser == rpc = "done" => tx = ClaimedRow(row)

\* the credit indicator of the claim: "cr" in any case, or a leading "+"
CreditMarked(t) ==
    t # None /\ (Contains(Lower(t), <<"c", "r">>) \/ StartsWith(Strip(t), <<"+">>))

\* a well-formed numeric string: an optional marker, digits grouped by commas,
\* an optional fraction, an optional "Dr"
WellFormed(t) ==
    /\ t # None
    /\ LET s == Strip(t)
           a == IF s # <<>> /\ s[1] \in {"C", "$"} THEN Tail(s) ELSE s
           n1 == Span(a, Digits \cup {","})
           b == SubSeq(a, n1 + 1, Len(a))
           n2 == IF b # <<>> /\ b[1] = "." THEN 1 + Span(Tail(b), Digits) ELSE 0
           c == SubSeq(b, n2 + 1, Len(b))
       IN  /\ n1 >= 1 /\ a[1] \in Digits /\ a[n1] \in Digits
           /\ n2 # 1
           /\ c = <<>> \/ LStrip(c) = <<"D", "r">>

\* the decimal formed by the digits and the decimal point of t
DigitsValue(t) ==
    LET kept == Filter(t, Digits \cup {"."})
    IN  <<IntOf(Filter(kept, Digits)), -(Len(kept) - Span(kept, Digits) - 1)>>

\* what remains of t is no decimal: nothing, or no digit, or two points
NoDecimal(t) ==
    \/ t = None
    \/ Filter(t, Digits) = <<>>
    \/ Len(Filter(t, {"."})) > 1

C6_Common ==
    /\ ~IsRaise(amount)
    /\ NoDecimal(text) => amount = None
    /\ ~CreditMarked(text) /\ WellFormed(text) =>
          /\ amount # None
          /\ DecEq(DecAbs(amount), Dec(0, DigitsValue(text)[1],
                                       IF Filter(text, {"."}) = <<>> THEN 0
                                       ELSE DigitsValue(text)[2]))

\* C6 (as claimed): _clean_amount never raises; a result for a text with "cr"
\* or a leading "+" is negative; every other well-formed numeric string gives a
\* positive value whose magnitude is that of its digits; the result is absent
\* when no decimal remains.
C6_SignConvention ==
    apc # "clean" =>
        /\ C6_Common
        /\ CreditMarked(text) /\ amount # None => DecIsNegative(amount)
        /\ ~CreditMarked(text) /\ WellFormed(text) => DecIsPositive(amount)

\* C6 (amended): as claimed, except that a text whose digits are all zeros
\* gives zero, which is neither negative nor positive: a result for a credit
\* text is negative or zero, and every other well-formed numeric string gives a
\* positive value or zero.
C6_SignConventionOrZero ==
    apc # "clean" =>
        /\ C6_Common
        /\ CreditMarked(text) /\ amount # None =>
              DecIsNegative(amount) \/ (DecCoef(amount) = 0 /\ IntOf(Filter(text, Digits)) = 0)
        /\ ~CreditMarked(text) /\ WellFormed(text) =>
              DecIsPositive(amount) \/ (DecCoef(amount) = 0 /\ IntOf(Filter(text, Digits)) = 0)

C6_Witness == apc = "cleaned" /\ text = AmtPayment /\ amount = Dec(1, 8696200, -2)

ClaimedLedger(header) ==
    LET RECURSIVE Present(_)
        Present(cells) ==
            IF cells = <<>> THEN <<>>
            ELSE (IF Head(cells) = None THEN <<>> ELSE <<Head(cells)>>) \o Present(Tail(cells))
        joined == Lower(Join(Present(header), <<" ">>))
    IN  \A kw \in {KwDate, KwTransaction, KwAmount} :
            \E p \in 1..Len(joined) :
                p + Len(kw) - 1 <= Len(joined) /\ SubSeq(joined, p, p + Len(kw) - 1) = kw

\* the transactions of the pages that have text, a table counted only when
\* its header is a ClaimedLedger one
RECURSIVE ClaimedTables(_)
ClaimedTables(tables) ==
    IF tables = <<>> THEN <<>>
    ELSE (IF Head(tables) # <<>> /\ ClaimedLedger(Head(tables)[1])
          THEN AcceptedRows(Tail(Head(tables))) ELSE <<>>) \o ClaimedTables(Tail(tables))

RECURSIVE ClaimedPages(_)
ClaimedPages(pages) ==
    IF pages = <<>> THEN <<>>
    ELSE (IF Head(pages).text = <<>> THEN <<>> ELSE ClaimedTables(Head(pages).tables))
             \o ClaimedPages(Tail(pages))

\* C8: _is_transaction_table is true of a header exactly when the case-folded
\* join of its non-absent cells contains "date", "transaction" and "amount";
\* a table whose header fails the test contributes no transaction, whatever
\* its rows hold.
C8_LedgerHeaderOnly ==
    /\ pc = "table" =>
          \A k \in 1..Len(doc.pages[i].tables) :
              LET table == doc.pages[i].tables[k]
              IN  table # <<>> => IsTransactionTable(table[1]) = ClaimedLedger(table[1])
    /\ transactions # <<>> => ClaimedPages(doc.pages) # <<>>
    /\ Succeeded => result.transactions = ClaimedPages(doc.pages)

C8_Witness ==
    /\ Succeeded
    /\ Len(doc.pages) = 1
    /\ doc.pages[1].tables = <<TableOther, TableLedger>>
    /\ result.transactions = <<Tx(Date0810, AmazonPay, <<"float", 0, 123456, -2>>),
                               Tx(Date0910, PaymentReceived, <<"float", 1, 86962, 0>>)>>

\* the transactions held at the moment, those of the result included
Held == IF result = NoResult THEN transactions ELSE transactions \o result.transactions

TokenValue(token) ==
    IF token = None \/ NoDecimal(token) THEN None
    ELSE Float(Dec(0, DigitsValue(token)[1],
                   IF Filter(token, {"."}) = <<>> THEN 0 ELSE DigitsValue(token)[2]))

\* the text of the first page
FirstText(d) == IF d.pages = <<>> THEN <<>> ELSE d.pages[1].text

\* C10: Layout A is tried first and, when it matches, its token is used and
\* Layout B is not tried; B's token is used only when A does not match; the
\* credit limit is the absolute value of the normalised token, so never
\* negative; when neither matches the limit is absent, the parse still returns
\* a result, and the other three metadata fields are what their own patterns
\* give.
C10_LimitPriority ==
    LET a == SearchLimitA(FirstText(doc))
        b == SearchLimitB(FirstText(doc))
        token == IF a # None THEN a ELSE b
    IN  /\ "B" \in searched => "A" \in searched /\ a = None
        /\ "A" \in searched => page_one_text = FirstText(doc)
        /\ "A" \in searched /\ pc # "limit_b" => limit_str = token
        /\ pc \in {"limit_a", "limit_b", "limit"} => total_limit = None
        /\ total_limit # None => total_limit[2] = 0
        /\ pc = "return" \/ Succeeded => total_limit = TokenValue(token)
        /\ Succeeded =>
              /\ result.available_limit = total_limit
              /\ result.card_name = IF SearchCardName(FirstText(doc)) = None THEN None
                                    ELSE CleanCardName(SearchCardName(FirstText(doc)))
              /\ result.name_on_card = SearchNameOnCard(FirstText(doc))
              /\ result.card_last_4_digits = SearchCardNumber(FirstText(doc))
        /\ Done /\ doc.open = "ok" /\ ~ReadFails(doc) => Succeeded

C10_Witness ==
    /\ Succeeded
    /\ searched = {"A"}
    /\ SearchLimitB(page_one_text) # None
    /\ SearchLimitB(page_one_text) # SearchLimitA(page_one_text)
    /\ result.available_limit = TokenValue(SearchLimitA(page_one_text))
    /\ result.available_limit # None

=============================================================================
